---------------------------- MODULE Spec2Model ----------------------------
(***************************************************************************)
(* A model of dynamus_core/framework.py: the CodeTemplate life cycle, the  *)
(* template table built by TemplateBasedGenerator._load_templates, the     *)
(* generate loop, the context builder, output-path formatting and the      *)
(* naming/type filters.                                                    *)
(*                                                                         *)
(* Python strings that the code transforms (lower, replace, format,        *)
(* re.sub) are sequences of one-character strings; strings that are only   *)
(* compared or stored (feature flags, dictionary keys of the template      *)
(* context, error kinds) are TLA+ strings.                                 *)
(***************************************************************************)
EXTENDS Integers, Sequences, FiniteSets, TLC

VARIABLES
    disk,        \* the template directory: relative path -> behaviour of the file
    objs,        \* the CodeTemplate objects constructed so far
    templates,   \* TemplateBasedGenerator.templates, an insertion-ordered dict
    disc,        \* the position of __init__/_load_templates
    calls,       \* the frames of the generate calls
    lastRender,  \* the last CodeTemplate.render call made by a caller, and its outcome
    loadCalls,   \* history: the objects on which a load_template call has completed
    arg,         \* the argument of the filter / builder under study
    res,         \* what it returned
    stage        \* how far the study of arg has come

vars == <<disk, objs, templates, disc, calls, lastRender, loadCalls, arg, res, stage>>
machineVars == <<disk, objs, templates, disc, calls, lastRender, loadCalls>>
filterVars == <<arg, res, stage>>

None == "None"

\* ------------------------------------------------------------------ bounds
MaxSnakeLen == 3
MaxFields == 3
MaxFeatures == 2
MaxTokens == 3
MaxFiles == 2
MaxCalls == 2
MaxObjects == 2

\* ----------------------------------------------------------------- strings
UpperLetters == <<"A", "B", "C", "D", "E", "F", "G", "H", "I", "J", "K", "L", "M", "N", "O", "P", "Q", "R", "S", "T", "U", "V", "W", "X", "Y", "Z">>
LowerLetters == <<"a", "b", "c", "d", "e", "f", "g", "h", "i", "j", "k", "l", "m", "n", "o", "p", "q", "r", "s", "t", "u", "v", "w", "x", "y", "z">>
Digits == {"0", "1", "2", "3", "4", "5", "6", "7", "8", "9"}

Range(s) == {s[i] : i \in DOMAIN s}
IsUpper(c) == c \in Range(UpperLetters)
IsLower(c) == c \in Range(LowerLetters)
IsDigit(c) == c \in Digits
LetterIndex(letters, c) == CHOOSE i \in DOMAIN letters : letters[i] = c

\* str.lower / str.upper on one character (ASCII)
LowerChar(c) == IF IsUpper(c) THEN LowerLetters[LetterIndex(UpperLetters, c)] ELSE c
UpperChar(c) == IF IsLower(c) THEN UpperLetters[LetterIndex(LowerLetters, c)] ELSE c

\* str.lower()
Lower(s) == [i \in DOMAIN s |-> LowerChar(s[i])]

\* all sequences over alphabet of length at most n
SeqsUpTo(alphabet, n) == UNION {[1..k -> alphabet] : k \in 0..n}

\* the outcome of a call: a value, or the exception raised
Return(value) == [ok |-> TRUE, val |-> value, err |-> "", about |-> <<>>]
Raise(kind, about) == [ok |-> FALSE, val |-> <<>>, err |-> kind, about |-> about]

\* ------------------------------------------------------------ to_snake_case
\* the end of the greedy run [a-z]+ that starts at position j
RECURSIVE LowerRunEnd(_, _)
LowerRunEnd(s, j) ==
    IF j + 1 <= Len(s) /\ IsLower(s[j + 1]) THEN LowerRunEnd(s, j + 1) ELSE j

\* re.sub('(.)([A-Z][a-z]+)', r'\1_\2', s), scanning from position i
RECURSIVE SubWordStart(_, _)
SubWordStart(s, i) ==
    IF i > Len(s) THEN <<>>
    ELSE IF /\ i + 2 <= Len(s)
            /\ s[i] # "\n"
            /\ IsUpper(s[i + 1])
            /\ IsLower(s[i + 2])
         THEN LET j == LowerRunEnd(s, i + 2)
              IN  <<s[i], "_">> \o SubSeq(s, i + 1, j) \o SubWordStart(s, j + 1)
         ELSE <<s[i]>> \o SubWordStart(s, i + 1)

\* re.sub('([a-z0-9])([A-Z])', r'\1_\2', s), scanning from position i
RECURSIVE SubHump(_, _)
SubHump(s, i) ==
    IF i > Len(s) THEN <<>>
    ELSE IF /\ i + 1 <= Len(s)
            /\ (IsLower(s[i]) \/ IsDigit(s[i]))
            /\ IsUpper(s[i + 1])
         THEN <<s[i], "_", s[i + 1]>> \o SubHump(s, i + 2)
         ELSE <<s[i]>> \o SubHump(s, i + 1)

\* the same filter with the trailing .lower() forgotten
to_snake_case_no_lower(text) == SubHump(SubWordStart(text, 1), 1)

to_snake_case(text) == Lower(SubHump(SubWordStart(text, 1), 1))

SnakeAlphabet == {"A", "B", "a", "b", "1", "_"}
SnakeInputs == SeqsUpTo(SnakeAlphabet, MaxSnakeLen)

\* no render call made yet
NoRender == [obj |-> 0, outcome |-> Return(<<>>), after_load |-> FALSE]

InitMachineIdle ==
    /\ disk = <<>>
    /\ objs = <<>>
    /\ templates = <<>>
    /\ disc = [pc |-> "off"]
    /\ calls = <<>>
    /\ lastRender = NoRender
    /\ loadCalls = {}

InitSnake ==
    /\ InitMachineIdle
    /\ arg \in SnakeInputs
    /\ res = <<>>
    /\ stage = "input"

SnakeOnce ==
    /\ stage = "input"
    /\ res' = <<to_snake_case(arg)>>
    /\ stage' = "once"
    /\ UNCHANGED <<arg, machineVars>>

SnakeTwice ==
    /\ stage = "once"
    /\ res' = Append(res, to_snake_case(res[1]))
    /\ stage' = "twice"
    /\ UNCHANGED <<arg, machineVars>>

NextSnake == SnakeOnce \/ SnakeTwice

SpecSnake == InitSnake /\ [][NextSnake]_vars

\* C6: to_snake_case is idempotent: applying the filter to its own result
\* gives that result again, for snake_case, camelCase and PascalCase inputs.
C6_SnakeIdempotent == stage = "twice" => res[2] = res[1]

\* a camelCase/PascalCase input that the first application really rewrote
C6_Witness ==
    /\ stage = "twice"
    /\ Len(res[1]) > Len(arg)
    /\ \E i \in DOMAIN arg : IsUpper(arg[i])

\* ------------------------------------------------------------- type filters
\* dict.get(key, default)
DictGet(d, key, default) == IF key \in DOMAIN d THEN d[key] ELSE default

PythonTypeMapping ==
    (<<"s", "t", "r", "i", "n", "g">> :> "str") @@ (<<"t", "e", "x", "t">> :> "str") @@ (<<"i", "n", "t", "e", "g", "e", "r">> :> "int") @@
    (<<"f", "l", "o", "a", "t">> :> "float") @@ (<<"b", "o", "o", "l", "e", "a", "n">> :> "bool") @@
    (<<"d", "a", "t", "e", "t", "i", "m", "e">> :> "datetime") @@ (<<"d", "a", "t", "e">> :> "date") @@
    (<<"e", "m", "a", "i", "l">> :> "EmailStr") @@ (<<"u", "r", "l">> :> "HttpUrl") @@ (<<"u", "u", "i", "d">> :> "UUID")

SqlalchemyTypeMapping ==
    (<<"s", "t", "r", "i", "n", "g">> :> "String(255)") @@ (<<"t", "e", "x", "t">> :> "Text") @@
    (<<"i", "n", "t", "e", "g", "e", "r">> :> "Integer") @@ (<<"f", "l", "o", "a", "t">> :> "Float") @@
    (<<"b", "o", "o", "l", "e", "a", "n">> :> "Boolean") @@ (<<"d", "a", "t", "e", "t", "i", "m", "e">> :> "DateTime") @@
    (<<"d", "a", "t", "e">> :> "Date") @@ (<<"e", "m", "a", "i", "l">> :> "String(255)") @@
    (<<"u", "r", "l">> :> "String(255)") @@ (<<"u", "u", "i", "d">> :> "UUID(as_uuid=True)") @@
    (<<"j", "s", "o", "n">> :> "JSON")

\* the same filter with the .lower() of the key forgotten
map_type_to_python_exact(field_type) == DictGet(PythonTypeMapping, field_type, "str")

map_type_to_python(field_type) == DictGet(PythonTypeMapping, Lower(field_type), "str")

map_type_to_sqlalchemy(field_type) ==
    DictGet(SqlalchemyTypeMapping, Lower(field_type), "String(255)")

\* key written with the letters at the positions of mask in upper case
Capitalised(key, mask) ==
    [i \in DOMAIN key |-> IF i \in mask THEN UpperChar(key[i]) ELSE key[i]]

UnknownTypes ==
    {<<"u", "n", "k", "n", "o", "w", "n", "_", "t", "y", "p", "e">>, <<"M", "o", "n", "e", "y">>, <<"j", "s", "o", "n", "b">>, <<"e", "m", "a", "i", "l", "s">>, <<"s", "t", "r">>, <<"e", "-", "m", "a", "i", "l">>, <<>>}

\* every capitalisation of every key of either table, and the unknown types;
\* origin remembers the lower-case spelling the text was made from
TypeInputs ==
    UNION {{[text |-> Capitalised(k, m), origin |-> k] : m \in SUBSET (DOMAIN k)} :
              k \in DOMAIN SqlalchemyTypeMapping \cup DOMAIN PythonTypeMapping}
    \cup {[text |-> u, origin |-> u] : u \in UnknownTypes}

InitTypes ==
    /\ InitMachineIdle
    /\ arg \in TypeInputs
    /\ res = [python |-> None, sqlalchemy |-> None]
    /\ stage = "input"

MapPython ==
    /\ stage = "input"
    /\ res.python = None
    /\ res' = [res EXCEPT !.python = map_type_to_python(arg.text)]
    /\ UNCHANGED <<arg, stage, machineVars>>

MapSqlalchemy ==
    /\ stage = "input"
    /\ res.sqlalchemy = None
    /\ res' = [res EXCEPT !.sqlalchemy = map_type_to_sqlalchemy(arg.text)]
    /\ UNCHANGED <<arg, stage, machineVars>>

NextTypes == MapPython \/ MapSqlalchemy

SpecTypes == InitTypes /\ [][NextTypes]_vars

\* C7: both type filters are a case-insensitive table lookup with a fallback:
\* a type spelled in any capitalisation of a table key maps to that key's
\* entry, every other type maps to the vocabulary's fallback ("str",
\* "String(255)"), and the lookup always yields a value.
C7_TypeLookup ==
    /\ res.python # None =>
          res.python = IF arg.origin \in DOMAIN PythonTypeMapping
                       THEN PythonTypeMapping[arg.origin] ELSE "str"
    /\ res.sqlalchemy # None =>
          res.sqlalchemy = IF arg.origin \in DOMAIN SqlalchemyTypeMapping
                           THEN SqlalchemyTypeMapping[arg.origin] ELSE "String(255)"

\* "EMAIL" looked up in both vocabularies
C7_Witness ==
    /\ arg.text = <<"E", "M", "A", "I", "L">>
    /\ res.python = "EmailStr"
    /\ res.sqlalchemy = "String(255)"

\* ------------------------------------------------------------ entity model
\* Optional[str]: None, or a string
NoStr == [is_none |-> TRUE, val |-> <<>>]
SomeStr(s) == [is_none |-> FALSE, val |-> s]
\* Python truthiness of an Optional[str]: None and "" are falsy
Truthy(opt) == ~opt.is_none /\ opt.val # <<>>

\* FieldDefinition (the attributes the generator reads)
Field(name, type, nullable, unique, index, primary_key) ==
    [name |-> name, type |-> type, nullable |-> nullable, unique |-> unique,
     index |-> index, primary_key |-> primary_key]

FieldCatalogue ==
    {Field("id", <<"i", "n", "t", "e", "g", "e", "r">>, FALSE, TRUE, TRUE, TRUE),
     Field("email", <<"s", "t", "r", "i", "n", "g">>, FALSE, TRUE, FALSE, FALSE),
     Field("note", <<"t", "e", "x", "t">>, TRUE, FALSE, FALSE, FALSE),
     Field("price", <<"f", "l", "o", "a", "t">>, TRUE, FALSE, TRUE, FALSE)}

\* EntityDefinition
Entity(name, fields, table_name) ==
    [name |-> name, fields |-> fields, table_name |-> table_name]

\* GenerationContext
Context(entity, framework, architecture, features) ==
    [entity |-> entity, framework |-> framework, database |-> "postgresql",
     architecture |-> architecture, features |-> features, config |-> <<>>]

FeatureFlags == {"auth", "pagination", "soft_delete", "wizardhat"}

\* ---------------------------------------------------------- context builder
\* x in a_list
InList(x, list) == \E i \in DOMAIN list : list[i] = x

\* [f for f in fields if test(f)] is SelectSeq(fields, test)

\* the first field with primary_key set, or None
RECURSIVE _get_primary_key_field(_)
_get_primary_key_field(entity) ==
    IF entity.fields = <<>> THEN <<>>
    ELSE IF Head(entity.fields).primary_key THEN <<Head(entity.fields)>>
    ELSE _get_primary_key_field([entity EXCEPT !.fields = Tail(entity.fields)])

\* required_fields with the primary key left out
RequiredFieldsNoKey(entity) ==
    SelectSeq(entity.fields, LAMBDA f : ~f.nullable /\ ~f.primary_key)

RequiredFields(entity) == SelectSeq(entity.fields, LAMBDA f : ~f.nullable)
OptionalFields(entity) == SelectSeq(entity.fields, LAMBDA f : f.nullable)

\* d[key] = value
SetItem(d, key, value) == (key :> value) @@ d
\* d.update(other)
Update(d, other) == other @@ d

BaseContext(context) ==
    LET entity == context.entity
    IN  ("entity" :> entity) @@
        ("entity_name" :> entity.name) @@
        ("entity_name_lower" :> Lower(entity.name)) @@
        ("table_name" :> IF Truthy(entity.table_name) THEN entity.table_name.val
                         ELSE Lower(entity.name) \o <<"s">>) @@
        ("fields" :> entity.fields) @@
        ("framework" :> context.framework) @@
        ("database" :> context.database) @@
        ("architecture" :> context.architecture) @@
        ("features" :> context.features) @@
        ("config" :> context.config)

Utilities(entity) ==
    ("primary_key_field" :> _get_primary_key_field(entity)) @@
    ("required_fields" :> RequiredFields(entity)) @@
    ("optional_fields" :> OptionalFields(entity)) @@
    ("unique_fields" :> SelectSeq(entity.fields, LAMBDA f : f.unique)) @@
    ("indexed_fields" :> SelectSeq(entity.fields, LAMBDA f : f.index)) @@
    ("string_fields" :> SelectSeq(entity.fields, LAMBDA f : f.type = <<"s", "t", "r", "i", "n", "g">>)) @@
    ("numeric_fields" :>
        SelectSeq(entity.fields, LAMBDA f : f.type \in {<<"i", "n", "t", "e", "g", "e", "r">>, <<"f", "l", "o", "a", "t">>}))

\* the feature keys written as booleans whether or not the flag is given
FeatureKeysAlways(template_context, features) ==
    LET a == SetItem(template_context, "include_auth", InList("auth", features))
        b == IF InList("auth", features)
             THEN SetItem(a, "auth_dependency", "get_current_user") ELSE a
        c == SetItem(b, "include_pagination", InList("pagination", features))
    IN  SetItem(c, "include_soft_delete", InList("soft_delete", features))

FeatureKeys(template_context, features) ==
    LET a == IF InList("auth", features)
             THEN SetItem(SetItem(template_context, "include_auth", TRUE),
                          "auth_dependency", "get_current_user")
             ELSE template_context
        b == IF InList("pagination", features)
             THEN SetItem(a, "include_pagination", TRUE) ELSE a
    IN  IF InList("soft_delete", features)
        THEN SetItem(b, "include_soft_delete", TRUE) ELSE b

_prepare_template_context(context) ==
    FeatureKeys(Update(BaseContext(context), Utilities(context.entity)),
                context.features)

ContextInputs ==
    {Context(Entity(<<"O", "r", "d", "e", "r">>, fields, table_name), <<"f", "a", "s", "t", "a", "p", "i">>, <<"l", "a", "y", "e", "r", "e", "d">>, features) :
        fields \in SeqsUpTo(FieldCatalogue, MaxFields),
        table_name \in {NoStr, SomeStr(<<"o", "r", "d", "e", "r", "_", "t", "b", "l">>)},
        features \in SeqsUpTo(FeatureFlags, MaxFeatures)}

InitContext ==
    /\ InitMachineIdle
    /\ arg \in ContextInputs
    /\ res = <<>>
    /\ stage = "input"

BuildContext ==
    /\ stage = "input"
    /\ res' = _prepare_template_context(arg)
    /\ stage' = "built"
    /\ UNCHANGED <<arg, machineVars>>

NextContext == BuildContext

SpecContext == InitContext /\ [][NextContext]_vars

AlwaysKeys ==
    {"entity", "entity_name", "entity_name_lower", "table_name", "fields",
     "framework", "database", "architecture", "features", "config",
     "primary_key_field", "required_fields", "optional_fields", "unique_fields",
     "indexed_fields", "string_fields", "numeric_fields"}

\* the key is in the context, with value true, exactly when the flag is given
FlagKey(flag, key) ==
    /\ key \in DOMAIN res <=> InList(flag, arg.features)
    /\ key \in DOMAIN res => res[key] = TRUE

\* C2: include_auth (true, with auth_dependency), include_pagination and
\* include_soft_delete are keys of the built context exactly when their flag
\* is in features; an absent flag leaves its key out of the context; an
\* unrecognised flag adds no key and stays in the context's features value.
C2_FeatureKeys ==
    stage = "built" =>
        /\ FlagKey("auth", "include_auth")
        /\ "auth_dependency" \in DOMAIN res <=> InList("auth", arg.features)
        /\ FlagKey("pagination", "include_pagination")
        /\ FlagKey("soft_delete", "include_soft_delete")
        /\ DOMAIN res \subseteq
              AlwaysKeys \cup {"include_auth", "auth_dependency",
                               "include_pagination", "include_soft_delete"}
        /\ res["features"] = arg.features

C2_Witness ==
    /\ stage = "built"
    /\ arg.features = <<"pagination", "wizardhat">>
    /\ res["include_pagination"] = TRUE
    /\ "include_auth" \notin DOMAIN res
    /\ res["features"] = <<"pagination", "wizardhat">>

\* the elements of fields at the positions in idx, in increasing position
RECURSIVE PickFrom(_, _, _)
PickFrom(fields, idx, i) ==
    IF i > Len(fields) THEN <<>>
    ELSE (IF i \in idx THEN <<fields[i]>> ELSE <<>>) \o PickFrom(fields, idx, i + 1)

\* C3: required_fields and optional_fields partition the field list: there is
\* a set of positions whose fields, in the original order, are exactly
\* required_fields and are the fields with nullable false, and the fields at
\* the other positions, in the original order, are exactly optional_fields
\* and are the fields with nullable true.
C3_Partition ==
    stage = "built" =>
        LET fields == arg.entity.fields
        IN  \E idx \in SUBSET (DOMAIN fields) :
                /\ res["required_fields"] = PickFrom(fields, idx, 1)
                /\ res["optional_fields"] = PickFrom(fields, DOMAIN fields \ idx, 1)
                /\ \A i \in DOMAIN fields : i \in idx <=> ~fields[i].nullable
                /\ Len(res["required_fields"]) + Len(res["optional_fields"])
                       = Len(fields)

C3_Witness ==
    /\ stage = "built"
    /\ Len(arg.entity.fields) = MaxFields
    /\ Len(res["required_fields"]) >= 2
    /\ res["optional_fields"] # <<>>
    /\ arg.entity.fields[1].nullable

\* ------------------------------------------------------------ CodeTemplate
\* Optional[Template]: None, or the template compiled from a file
NoTemplate == [loaded |-> FALSE, source |-> <<>>]
Compiled(template_path) == [loaded |-> TRUE, source |-> template_path]

\* CodeTemplate.__init__
CodeTemplate(name, template_path, output_pattern) ==
    [name |-> name, template_path |-> template_path,
     output_pattern |-> output_pattern, dependencies |-> <<>>,
     _template |-> NoTemplate]

\* the position of the first character of chars at or after i, or 0
FirstOf(s, i, chars) ==
    LET at == {j \in i..Len(s) : s[j] \in chars}
    IN  IF at = {} THEN 0 ELSE CHOOSE j \in at : \A k \in at : j <= k

\* str.format(**kwargs) from position i on: text up to the next brace is
\* copied, "{{" and "}}" are literal braces, "{name}" is kwargs[name]
\* (KeyError when missing, IndexError for "{}"), a lone brace is a ValueError
RECURSIVE FormatFrom(_, _, _)
FormatFrom(s, i, kwargs) ==
    LET brace == FirstOf(s, i, {"{", "}"})
    IN  IF i > Len(s) THEN Return(<<>>)
        ELSE IF brace = 0 THEN Return(SubSeq(s, i, Len(s)))
        ELSE LET doubled == brace + 1 <= Len(s) /\ s[brace + 1] = s[brace]
                 close == FirstOf(s, brace, {"}"})
                 name == SubSeq(s, brace + 1, close - 1)
                 text == SubSeq(s, i, brace - 1)
                 rest == FormatFrom(s, IF doubled THEN brace + 2 ELSE close + 1, kwargs)
             IN  IF doubled
                 THEN IF rest.ok THEN Return(text \o <<s[brace]>> \o rest.val) ELSE rest
                 ELSE IF s[brace] = "}" THEN Raise("ValueError", <<>>)
                 ELSE IF close = 0 THEN Raise("ValueError", <<>>)
                 ELSE IF "{" \in Range(name) THEN Raise("ValueError", name)
                 ELSE IF name = <<>> THEN Raise("IndexError", <<>>)
                 ELSE IF name \notin DOMAIN kwargs THEN Raise("KeyError", name)
                 ELSE IF rest.ok THEN Return(text \o kwargs[name] \o rest.val)
                 ELSE rest

Format(s, kwargs) == FormatFrom(s, 1, kwargs)

\* get_output_path with the entity name used as written
get_output_path_as_written(template, context) ==
    Format(template.output_pattern,
           (<<"e", "n", "t", "i", "t", "y", "_", "n", "a", "m", "e">> :> context.entity.name) @@
           (<<"f", "r", "a", "m", "e", "w", "o", "r", "k">> :> context.framework) @@
           (<<"a", "r", "c", "h", "i", "t", "e", "c", "t", "u", "r", "e">> :> context.architecture))

\* CodeTemplate.get_output_path
get_output_path(template, context) ==
    Format(template.output_pattern,
           (<<"e", "n", "t", "i", "t", "y", "_", "n", "a", "m", "e">> :> Lower(context.entity.name)) @@
           (<<"f", "r", "a", "m", "e", "w", "o", "r", "k">> :> context.framework) @@
           (<<"a", "r", "c", "h", "i", "t", "e", "c", "t", "u", "r", "e">> :> context.architecture))

\* TemplateBasedGenerator._generate_output_pattern
pattern_mapping ==
    (<<"f", "a", "s", "t", "a", "p", "i", "/", "m", "o", "d", "e", "l">> :> <<"a", "p", "p", "/", "m", "o", "d", "e", "l", "s", "/", "{", "e", "n", "t", "i", "t", "y", "_", "n", "a", "m", "e", "}", ".", "p", "y">>) @@
    (<<"f", "a", "s", "t", "a", "p", "i", "/", "s", "c", "h", "e", "m", "a">> :> <<"a", "p", "p", "/", "s", "c", "h", "e", "m", "a", "s", "/", "{", "e", "n", "t", "i", "t", "y", "_", "n", "a", "m", "e", "}", ".", "p", "y">>) @@
    (<<"f", "a", "s", "t", "a", "p", "i", "/", "a", "p", "i">> :> <<"a", "p", "p", "/", "a", "p", "i", "/", "{", "e", "n", "t", "i", "t", "y", "_", "n", "a", "m", "e", "}", ".", "p", "y">>) @@
    (<<"f", "a", "s", "t", "a", "p", "i", "/", "r", "e", "p", "o", "s", "i", "t", "o", "r", "y">> :> <<"a", "p", "p", "/", "r", "e", "p", "o", "s", "i", "t", "o", "r", "i", "e", "s", "/", "{", "e", "n", "t", "i", "t", "y", "_", "n", "a", "m", "e", "}", "_", "r", "e", "p", "o", "s", "i", "t", "o", "r", "y", ".", "p", "y">>) @@
    (<<"f", "a", "s", "t", "a", "p", "i", "/", "s", "e", "r", "v", "i", "c", "e">> :> <<"a", "p", "p", "/", "s", "e", "r", "v", "i", "c", "e", "s", "/", "{", "e", "n", "t", "i", "t", "y", "_", "n", "a", "m", "e", "}", "_", "s", "e", "r", "v", "i", "c", "e", ".", "p", "y">>) @@
    (<<"f", "a", "s", "t", "a", "p", "i", "/", "t", "e", "s", "t">> :> <<"t", "e", "s", "t", "s", "/", "t", "e", "s", "t", "_", "{", "e", "n", "t", "i", "t", "y", "_", "n", "a", "m", "e", "}", ".", "p", "y">>) @@
    (<<"a", "l", "e", "m", "b", "i", "c", "/", "m", "i", "g", "r", "a", "t", "i", "o", "n">> :> <<"a", "l", "e", "m", "b", "i", "c", "/", "v", "e", "r", "s", "i", "o", "n", "s", "/", "c", "r", "e", "a", "t", "e", "_", "{", "e", "n", "t", "i", "t", "y", "_", "n", "a", "m", "e", "}", ".", "p", "y">>) @@
    (<<"d", "o", "c", "s", "/", "a", "p", "i">> :> <<"d", "o", "c", "s", "/", "{", "e", "n", "t", "i", "t", "y", "_", "n", "a", "m", "e", "}", "_", "a", "p", "i", ".", "m", "d">>)

_generate_output_pattern(template_name) ==
    DictGet(pattern_mapping, template_name, <<"g", "e", "n", "e", "r", "a", "t", "e", "d", "/">> \o template_name)

\* --- the study of get_output_path
\* a pattern written as pieces: literal text, or a replacement field
Lit(text) == [field |-> FALSE, text |-> text]
Fld(name) == [field |-> TRUE, text |-> name]
PatternPieces ==
    {Lit(<<"a">>), Lit(<<"/">>), Lit(<<"_", "x", ".", "p", "y">>),
     Fld(<<"e", "n", "t", "i", "t", "y", "_", "n", "a", "m", "e">>), Fld(<<"f", "r", "a", "m", "e", "w", "o", "r", "k">>), Fld(<<"a", "r", "c", "h", "i", "t", "e", "c", "t", "u", "r", "e">>),
     Fld(<<"d", "a", "t", "a", "b", "a", "s", "e">>), Fld(<<"n", "a", "m", "e">>)}

\* the format string the pieces spell
RECURSIVE Spell(_)
Spell(pieces) ==
    IF pieces = <<>> THEN <<>>
    ELSE (IF Head(pieces).field THEN <<"{">> \o Head(pieces).text \o <<"}">>
          ELSE Head(pieces).text) \o Spell(Tail(pieces))

PathContexts ==
    {Context(Entity(name, <<>>, NoStr), framework, architecture, <<>>) :
        name \in {<<"O", "r", "d", "e", "r">>, <<"u", "s", "e", "r", "P", "r", "o", "f", "i", "l", "e">>},
        framework \in {<<"f", "a", "s", "t", "a", "p", "i">>, <<"D", "j", "a", "n", "g", "o">>},
        architecture \in {<<"l", "a", "y", "e", "r", "e", "d">>}}

RegistryNames ==
    DOMAIN pattern_mapping \cup {<<"f", "a", "s", "t", "a", "p", "i", "/", "d", "t", "o">>, <<"r", "e", "a", "d", "m", "e">>, <<"{", "e", "n", "t", "i", "t", "y", "_", "n", "a", "m", "e", "}", "/", "{", "n", "a", "m", "e", "}">>}

PathInputs ==
    {[template |-> CodeTemplate(<<"c", "u", "s", "t", "o", "m">>, <<"c", "u", "s", "t", "o", "m", ".", "j", "2">>, Spell(pieces)),
      pieces |-> pieces, by |-> "caller", context |-> context] :
        pieces \in SeqsUpTo(PatternPieces, MaxTokens), context \in PathContexts}
    \cup
    {[template |-> CodeTemplate(n, n \o <<".", "j", "2">>, _generate_output_pattern(n)),
      pieces |-> <<>>, by |-> "registry", context |-> context] :
        n \in RegistryNames, context \in PathContexts}

InitPath ==
    /\ InitMachineIdle
    /\ arg \in PathInputs
    /\ res = <<>>
    /\ stage = "input"

GetOutputPath ==
    /\ stage = "input"
    /\ res' = get_output_path(arg.template, arg.context)
    /\ stage' = "formatted"
    /\ UNCHANGED <<arg, machineVars>>

NextPath == GetOutputPath

SpecPath == InitPath /\ [][NextPath]_vars

\* what the pieces read with the three supplied values put in
RECURSIVE Substituted(_, _)
Substituted(pieces, context) ==
    IF pieces = <<>> THEN <<>>
    ELSE LET p == Head(pieces)
         IN  (IF ~p.field THEN p.text
              ELSE IF p.text = <<"e", "n", "t", "i", "t", "y", "_", "n", "a", "m", "e">> THEN Lower(context.entity.name)
              ELSE IF p.text = <<"f", "r", "a", "m", "e", "w", "o", "r", "k">> THEN context.framework
              ELSE context.architecture)
             \o Substituted(Tail(pieces), context)

SuppliedFields == {<<"e", "n", "t", "i", "t", "y", "_", "n", "a", "m", "e">>, <<"f", "r", "a", "m", "e", "w", "o", "r", "k">>, <<"a", "r", "c", "h", "i", "t", "e", "c", "t", "u", "r", "e">>}
OnlySupplied(pieces) ==
    \A i \in DOMAIN pieces : pieces[i].field => pieces[i].text \in SuppliedFields

\* C4: the output path is the pattern with {entity_name} replaced by the
\* lower-cased entity name, {framework} by context.framework and
\* {architecture} by context.architecture; a pattern with any other
\* placeholder makes get_output_path fail; the template "fastapi/model"
\* (pattern "app/models/{entity_name}.py") and the entity "Order" give
\* "app/models/order.py".
C4_OutputPath ==
    stage = "formatted" =>
        /\ arg.by = "caller" /\ OnlySupplied(arg.pieces) =>
              res.ok /\ res.val = Substituted(arg.pieces, arg.context)
        /\ arg.by = "caller" /\ ~OnlySupplied(arg.pieces) => ~res.ok
        /\ arg.by = "registry" /\ arg.template.name \in DOMAIN pattern_mapping =>
              /\ res.ok
              /\ \E i \in DOMAIN arg.template.output_pattern :
                    LET p == arg.template.output_pattern
                        j == i + Len(<<"{", "e", "n", "t", "i", "t", "y", "_", "n", "a", "m", "e", "}">>)
                    IN  /\ SubSeq(p, i, j - 1) = <<"{", "e", "n", "t", "i", "t", "y", "_", "n", "a", "m", "e", "}">>
                        /\ res.val = SubSeq(p, 1, i - 1)
                                     \o Lower(arg.context.entity.name)
                                     \o SubSeq(p, j, Len(p))
        /\ /\ arg.template.name = <<"f", "a", "s", "t", "a", "p", "i", "/", "m", "o", "d", "e", "l">>
           /\ arg.context.entity.name = <<"O", "r", "d", "e", "r">>
           => res.ok /\ res.val = <<"a", "p", "p", "/", "m", "o", "d", "e", "l", "s", "/", "o", "r", "d", "e", "r", ".", "p", "y">>
        /\ arg.template.name = <<"{", "e", "n", "t", "i", "t", "y", "_", "n", "a", "m", "e", "}", "/", "{", "n", "a", "m", "e", "}">> => ~res.ok

C4_Witness ==
    /\ stage = "formatted"
    /\ arg.template.name = <<"f", "a", "s", "t", "a", "p", "i", "/", "m", "o", "d", "e", "l">>
    /\ arg.context.entity.name = <<"O", "r", "d", "e", "r">>
    /\ res.ok
    /\ res.val = <<"a", "p", "p", "/", "m", "o", "d", "e", "l", "s", "/", "o", "r", "d", "e", "r", ".", "p", "y">>

\* ------------------------------------------------------- template directory
\* what the embedded engine does with each file under templates_dir
DiskCatalogue ==
    (<<"f", "a", "s", "t", "a", "p", "i", "/", "m", "o", "d", "e", "l", ".", "j", "2">> :> "ok") @@
    (<<"o", "r", "d", "e", "r", ".", "j", "2">> :> "ok") @@
    (<<"o", "r", "d", "e", "r", ".", "j", "2", ".", "j", "2">> :> "ok") @@
    (<<"{", "e", "n", "t", "i", "t", "y", "_", "n", "a", "m", "e", "}", ".", "j", "2">> :> "ok") @@
    (<<"{", "n", "a", "m", "e", "}", ".", "j", "2">> :> "ok") @@
    (<<"f", "a", "s", "t", "a", "p", "i", "/", "a", "p", "i", ".", "j", "2">> :> "undefined_without_auth") @@
    (<<"b", "r", "o", "k", "e", "n", ".", "j", "2">> :> "syntax_error") @@
    (<<"d", "j", "a", "n", "g", "o", "/", "m", "o", "d", "e", "l", ".", "j", "2">> :> "ok")

Restrict(f, S) == [x \in S |-> f[x]]

Disks ==
    {Restrict(DiskCatalogue, S) :
        S \in {T \in SUBSET (DOMAIN DiskCatalogue) : Cardinality(T) <= MaxFiles}}

\* Environment.get_template
get_template(files, template_path) ==
    IF template_path \notin DOMAIN files THEN Raise("TemplateNotFound", template_path)
    ELSE IF files[template_path] = "syntax_error"
         THEN Raise("TemplateSyntaxError", template_path)
    ELSE Return(Compiled(template_path))

\* jinja2 Template.render(**context): the text is a function of the template
\* and of the context; a template that dereferences auth_dependency raises
\* when the key is undefined
TemplateRender(files, compiled, context) ==
    IF /\ files[compiled.source] = "undefined_without_auth"
       /\ "auth_dependency" \notin DOMAIN context
    THEN Raise("UndefinedError", compiled.source)
    ELSE Return([source |-> compiled.source,
                 entity_name |-> context["entity_name"],
                 features |-> context["features"]])

\* load_template that leaves self._template as it was
load_template_unassigned(files, template) ==
    LET got == get_template(files, template.template_path)
    IN  IF got.ok THEN Return(template) ELSE got

\* CodeTemplate.load_template: the object after the call, or the exception
load_template(files, template) ==
    LET got == get_template(files, template.template_path)
    IN  IF got.ok THEN Return([template EXCEPT !._template = got.val]) ELSE got

\* render without the guard: None has no render attribute
render_unguarded(files, template, context) ==
    IF ~template._template.loaded THEN Raise("AttributeError", <<>>)
    ELSE TemplateRender(files, template._template, context)

\* CodeTemplate.render; ValueError(f"Template {self.name} not loaded") is the
\* error NotLoaded about the template's name
render(files, template, context) ==
    IF ~template._template.loaded THEN Raise("NotLoaded", template.name)
    ELSE TemplateRender(files, template._template, context)

\* str.replace(old, new), scanning from position i
RECURSIVE ReplaceFrom(_, _, _, _)
ReplaceFrom(s, i, old, new) ==
    IF i > Len(s) THEN <<>>
    ELSE IF i + Len(old) - 1 <= Len(s) /\ SubSeq(s, i, i + Len(old) - 1) = old
         THEN new \o ReplaceFrom(s, i + Len(old), old, new)
    ELSE <<s[i]>> \o ReplaceFrom(s, i + 1, old, new)

\* template_name = str(relative_path).replace('.j2', '')
TemplateName(relative_path) == ReplaceFrom(relative_path, 1, <<".", "j", "2">>, <<>>)

\* the contexts generate and render are called with
GenContexts ==
    {Context(Entity(<<"O", "r", "d", "e", "r">>, <<Field("id", <<"i", "n", "t", "e", "g", "e", "r">>, FALSE, TRUE, TRUE, TRUE)>>, NoStr),
             <<"f", "a", "s", "t", "a", "p", "i">>, <<"l", "a", "y", "e", "r", "e", "d">>, <<"auth">>),
     Context(Entity(<<"I", "t", "e", "m">>, <<>>, NoStr), <<"f", "a", "s", "t", "a", "p", "i">>, <<"l", "a", "y", "e", "r", "e", "d">>, <<>>)}

\* ---------------------------------------------- a CodeTemplate used directly
ConstructiblePaths == DOMAIN DiskCatalogue \cup {<<"m", "i", "s", "s", "i", "n", "g", ".", "j", "2">>}

InitTemplate ==
    /\ disk = DiskCatalogue
    /\ objs = <<>>
    /\ templates = <<>>
    /\ disc = [pc |-> "off"]
    /\ calls = <<>>
    /\ lastRender = NoRender
    /\ loadCalls = {}
    /\ arg = <<>>
    /\ res = <<>>
    /\ stage = "template"

\* template = CodeTemplate(name, template_path, output_pattern)
Construct(template_path) ==
    /\ Len(objs) < MaxObjects
    /\ objs' = Append(objs,
                      CodeTemplate(TemplateName(template_path), template_path,
                                   _generate_output_pattern(TemplateName(template_path))))
    /\ UNCHANGED <<disk, templates, disc, calls, lastRender, loadCalls, filterVars>>

\* template.load_template(env): on an exception the object is as before
CallLoadTemplate(o) ==
    LET done == load_template(disk, objs[o])
    IN  /\ objs' = IF done.ok THEN [objs EXCEPT ![o] = done.val] ELSE objs
        /\ loadCalls' = IF done.ok THEN loadCalls \cup {o} ELSE loadCalls
        /\ UNCHANGED <<disk, templates, disc, calls, lastRender, filterVars>>

\* template.render(context)
CallRender(o, context) ==
    /\ lastRender' = [obj |-> o,
                      outcome |-> render(disk, objs[o], _prepare_template_context(context)),
                      after_load |-> o \in loadCalls]
    /\ UNCHANGED <<disk, objs, templates, disc, calls, loadCalls, filterVars>>

NextTemplate ==
    \/ \E template_path \in ConstructiblePaths : Construct(template_path)
    \/ \E o \in DOMAIN objs : CallLoadTemplate(o)
    \/ \E o \in DOMAIN objs, context \in GenContexts : CallRender(o, context)

SpecTemplate == InitTemplate /\ [][NextTemplate]_vars

\* C5: a render call on a template on which no load_template call has
\* completed fails with the not-loaded error naming the template and yields
\* no content; a render call after a completed load_template never fails
\* with the not-loaded error.
C5_RenderNeedsLoad ==
    lastRender.obj # 0 =>
        /\ ~lastRender.after_load =>
              lastRender.outcome = Raise("NotLoaded", objs[lastRender.obj].name)
        /\ lastRender.after_load => lastRender.outcome.err # "NotLoaded"

\* a render call on a template constructed but not loaded
C5_Witness ==
    /\ lastRender.obj # 0
    /\ ~lastRender.after_load
    /\ ~lastRender.outcome.ok
    /\ lastRender.outcome.err = "NotLoaded"
    /\ lastRender.outcome.about = <<"f", "a", "s", "t", "a", "p", "i", "/", "m", "o", "d", "e", "l">>

\* ------------------------------------------------ TemplateBasedGenerator
\* self.templates[key] = value on an insertion-ordered dict of entries
DictInsert(entries, key, value) ==
    IF \E i \in DOMAIN entries : entries[i].name = key
    THEN [i \in DOMAIN entries |->
             IF entries[i].name = key THEN [name |-> key, obj |-> value] ELSE entries[i]]
    ELSE Append(entries, [name |-> key, obj |-> value])

\* the part of a logical name before its first "/", or the empty string
TopSegment(name) ==
    IF FirstOf(name, 1, {"/"}) = 0 THEN <<>>
    ELSE SubSeq(name, 1, FirstOf(name, 1, {"/"}) - 1)

KnownFrameworks == {<<"f", "a", "s", "t", "a", "p", "i">>, <<"d", "j", "a", "n", "g", "o">>, <<"f", "l", "a", "s", "k">>}

\* the templates relevant to a context, in table order: those whose top
\* segment is the context's framework and the framework-agnostic ones
_get_relevant_templates(entries, context) ==
    SelectSeq(entries,
              LAMBDA e : \/ TopSegment(e.name) = context.framework
                         \/ TopSegment(e.name) \notin KnownFrameworks)

\* generated_files = {} of a call that finds the map of an earlier call
NewResultMapKept(frames) ==
    IF \E c \in DOMAIN frames : frames[c].generated_files # <<>>
    THEN frames[CHOOSE c \in DOMAIN frames : frames[c].generated_files # <<>>].generated_files
    ELSE <<>>

\* generated_files = {}
NewResultMap(frames) == <<>>

\* generated_files[output_path] = code that keeps an entry already there
StoreFileKeepFirst(generated_files, output_path, code) ==
    IF output_path \in DOMAIN generated_files THEN generated_files
    ELSE SetItem(generated_files, output_path, code)

\* generated_files[output_path] = code
StoreFile(generated_files, output_path, code) ==
    SetItem(generated_files, output_path, code)

\* an except clause that skips the failed template and goes on
OnExceptionSkip(frame, template_name, cause) == [frame EXCEPT !.i = @ + 1]

\* except Exception as e: raise RuntimeError(f"Error generando {template_name}: {e}")
OnException(frame, template_name, cause) ==
    [frame EXCEPT !.pc = "raised",
                  !.result = Raise("RuntimeError",
                                   [template |-> template_name, cause |-> cause])]

\* the frame of a generate call that has not been made
IdleFrame ==
    [pc |-> "idle", context |-> <<>>, relevant |-> <<>>, i |-> 1,
     generated_files |-> <<>>, attempted |-> <<>>, result |-> Return(<<>>)]

\* one pass of the for loop of generate over relevant[i]
LoopBody(files, heap, frame) ==
    LET entry == frame.relevant[frame.i]
        template == heap[entry.obj]
        code == render(files, template, _prepare_template_context(frame.context))
        output_path == get_output_path(template, frame.context)
        tried == [frame EXCEPT !.attempted = Append(@, entry.name)]
    IN  IF ~code.ok THEN OnException(tried, entry.name, code)
        ELSE IF ~output_path.ok THEN OnException(tried, entry.name, output_path)
        ELSE [tried EXCEPT
                 !.generated_files = StoreFile(@, output_path.val, code.val),
                 !.i = @ + 1]

InitGen ==
    /\ disk \in Disks
    /\ objs = <<>>
    /\ templates = <<>>
    /\ disc = [pc |-> "scan", pending |-> DOMAIN disk, cur |-> 0, error |-> Return(<<>>)]
    /\ calls = [c \in 1..MaxCalls |-> IdleFrame]
    /\ lastRender = NoRender
    /\ loadCalls = {}
    /\ arg = <<>>
    /\ res = <<>>
    /\ stage = "generator"

\* _load_templates: the next file of rglob("*.j2"), up to the constructor call
ConstructNext(template_file) ==
    /\ disc.pc = "scan"
    /\ template_file \in disc.pending
    /\ LET template_name == TemplateName(template_file)
       IN  objs' = Append(objs, CodeTemplate(template_name, template_file,
                                             _generate_output_pattern(template_name)))
    /\ disc' = [disc EXCEPT !.pc = "constructed",
                            !.pending = @ \ {template_file},
                            !.cur = Len(objs) + 1]
    /\ UNCHANGED <<disk, templates, calls, lastRender, loadCalls, filterVars>>

\* _load_templates: template.load_template(self.jinja_env); an exception
\* leaves __init__ and the generator is never handed to a caller
LoadCurrent ==
    /\ disc.pc = "constructed"
    /\ LET done == load_template(disk, objs[disc.cur])
       IN  /\ objs' = IF done.ok THEN [objs EXCEPT ![disc.cur] = done.val] ELSE objs
           /\ loadCalls' = IF done.ok THEN loadCalls \cup {disc.cur} ELSE loadCalls
           /\ disc' = IF done.ok THEN [disc EXCEPT !.pc = "loaded"]
                      ELSE [disc EXCEPT !.pc = "failed", !.error = done]
    /\ UNCHANGED <<disk, templates, calls, lastRender, filterVars>>

\* _load_templates: self.templates[template_name] = template
InsertCurrent ==
    /\ disc.pc = "loaded"
    /\ templates' = DictInsert(templates, objs[disc.cur].name, disc.cur)
    /\ disc' = [disc EXCEPT !.pc = "scan"]
    /\ UNCHANGED <<disk, objs, calls, lastRender, loadCalls, filterVars>>

\* _load_templates and __init__ return
FinishLoading ==
    /\ disc.pc = "scan"
    /\ disc.pending = {}
    /\ disc' = [disc EXCEPT !.pc = "done"]
    /\ UNCHANGED <<disk, objs, templates, calls, lastRender, loadCalls, filterVars>>

\* generate(context) is entered: the call's own map, the relevant templates
GenerateEnter(c, context) ==
    /\ disc.pc = "done"
    /\ calls[c].pc = "idle"
    /\ \A b \in 1..(c - 1) : calls[b].pc # "idle"
    /\ calls' = [calls EXCEPT ![c] =
                    [IdleFrame EXCEPT
                        !.pc = "loop",
                        !.context = context,
                        !.generated_files = NewResultMap(calls),
                        !.relevant = _get_relevant_templates(templates, context)]]
    /\ UNCHANGED <<disk, objs, templates, disc, lastRender, loadCalls, filterVars>>

\* one template of the for loop
GenerateIterate(c) ==
    /\ calls[c].pc = "loop"
    /\ calls[c].i <= Len(calls[c].relevant)
    /\ calls' = [calls EXCEPT ![c] = LoopBody(disk, objs, calls[c])]
    /\ UNCHANGED <<disk, objs, templates, disc, lastRender, loadCalls, filterVars>>

\* return generated_files
GenerateReturn(c) ==
    /\ calls[c].pc = "loop"
    /\ calls[c].i > Len(calls[c].relevant)
    /\ calls' = [calls EXCEPT ![c] =
                    [calls[c] EXCEPT !.pc = "returned",
                                     !.result = Return(calls[c].generated_files)]]
    /\ UNCHANGED <<disk, objs, templates, disc, lastRender, loadCalls, filterVars>>

Next ==
    \/ \E template_file \in DOMAIN disk : ConstructNext(template_file)
    \/ LoadCurrent
    \/ InsertCurrent
    \/ FinishLoading
    \/ \E c \in DOMAIN calls, context \in GenContexts : GenerateEnter(c, context)
    \/ \E c \in DOMAIN calls : GenerateIterate(c)
    \/ \E c \in DOMAIN calls : GenerateReturn(c)

Spec == InitGen /\ [][Next]_vars

\* ----------------------------------------------------- claims on generate
\* what relevant template k of call c does on its own, with the call's context
RenderOf(c, k) ==
    render(disk, objs[calls[c].relevant[k].obj],
           _prepare_template_context(calls[c].context))
PathOf(c, k) == get_output_path(objs[calls[c].relevant[k].obj], calls[c].context)
Fails(c, k) == ~RenderOf(c, k).ok \/ ~PathOf(c, k).ok
CauseOf(c, k) == IF ~RenderOf(c, k).ok THEN RenderOf(c, k) ELSE PathOf(c, k)
Finished(c) == calls[c].pc \in {"returned", "raised"}
Names(entries) == [k \in DOMAIN entries |-> entries[k].name]

\* the first relevant template of call c that fails, or 0
FirstFailure(c) ==
    IF \E k \in DOMAIN calls[c].relevant : Fails(c, k)
    THEN CHOOSE k \in DOMAIN calls[c].relevant :
            Fails(c, k) /\ \A j \in 1..(k - 1) : ~Fails(c, j)
    ELSE 0

\* C1: generate is fail-fast: when T is the first relevant template, in
\* order, whose render or output-path formatting fails, the call never goes
\* past T, it ends with one error that names T and carries the cause, the
\* templates it rendered or tried are exactly those up to T, and it returns
\* no result map.
C1_FailFast ==
    \A c \in DOMAIN calls :
        LET t == FirstFailure(c)
        IN  t # 0 =>
              /\ calls[c].i <= t
              /\ Len(calls[c].attempted) <= t
              /\ calls[c].pc # "returned"
              /\ Finished(c) =>
                    /\ calls[c].result =
                          Raise("RuntimeError",
                                [template |-> calls[c].relevant[t].name,
                                 cause |-> CauseOf(c, t)])
                    /\ calls[c].result.val = <<>>
                    /\ calls[c].attempted = SubSeq(Names(calls[c].relevant), 1, t)

\* one call failed at its second template with a file already in its map,
\* another failed at its first template and left the second untouched
C1_Witness ==
    /\ \E c \in DOMAIN calls :
          /\ calls[c].pc = "raised"
          /\ calls[c].generated_files # <<>>
          /\ ~calls[c].result.ok
          /\ calls[c].result.about.cause.err = "KeyError"
    /\ \E c \in DOMAIN calls :
          /\ calls[c].pc = "raised"
          /\ Len(calls[c].attempted) < Len(calls[c].relevant)
          /\ calls[c].result.about.cause.err = "UndefinedError"

\* the relevant templates of call c that format to output path p
Writers(c, p) == {k \in DOMAIN calls[c].relevant : PathOf(c, k) = Return(p)}
Last(S) == CHOOSE k \in S : \A j \in S : j <= k

\* C8: a path collision silently overwrites: a call none of whose templates
\* fails returns a map, without error, whose keys are the output paths of
\* the relevant templates, each once, with the content of the template
\* processed last for that path; it has at most as many entries as there are
\* relevant templates, and fewer when two of them share a path.
C8_CollisionOverwrites ==
    \A c \in DOMAIN calls :
        Finished(c) /\ FirstFailure(c) = 0 =>
            LET files == calls[c].result.val
                n == Len(calls[c].relevant)
            IN  /\ calls[c].pc = "returned"
                /\ calls[c].result.ok
                /\ DOMAIN files = {PathOf(c, k).val : k \in 1..n}
                /\ \A p \in DOMAIN files : files[p] = RenderOf(c, Last(Writers(c, p))).val
                /\ Cardinality(DOMAIN files) <= n
                /\ (\E j, k \in 1..n : j # k /\ PathOf(c, j) = PathOf(c, k))
                       => Cardinality(DOMAIN files) < n

\* two relevant templates wrote the same path and the call returned one entry
C8_Witness ==
    \E c \in DOMAIN calls :
        /\ calls[c].pc = "returned"
        /\ Len(calls[c].relevant) = 2
        /\ DOMAIN calls[c].result.val = {<<"g", "e", "n", "e", "r", "a", "t", "e", "d", "/", "o", "r", "d", "e", "r">>}
        /\ calls[c].result.val[<<"g", "e", "n", "e", "r", "a", "t", "e", "d", "/", "o", "r", "d", "e", "r">>].source
               = objs[calls[c].relevant[2].obj].template_path

\* generate(context) run from start to end with nothing else running
RECURSIVE RunAlone(_)
RunAlone(frame) ==
    IF frame.pc # "loop" THEN frame.result
    ELSE IF frame.i > Len(frame.relevant) THEN Return(frame.generated_files)
    ELSE RunAlone(LoopBody(disk, objs, frame))

GenerateAlone(context) ==
    RunAlone([IdleFrame EXCEPT !.pc = "loop",
                               !.context = context,
                               !.relevant = _get_relevant_templates(templates, context)])

ResultsAsAlone ==
    \A c \in DOMAIN calls : Finished(c) => calls[c].result = GenerateAlone(calls[c].context)

TableUntouched ==
    disc.pc = "done" => templates' = templates /\ objs' = objs /\ disk' = disk

\* C9: generate calls may share one loaded table: under every interleaving
\* of their steps no step of a call changes the table or the templates in
\* it, and each call ends with the result, or the error, that the same call
\* gives when it runs alone.
C9_ConcurrentGenerate == []ResultsAsAlone /\ [][TableUntouched]_vars

\* a call returned files while an earlier call with another context was
\* half-way through its loop
C9_Witness ==
    \E b, c \in DOMAIN calls :
        /\ calls[b].pc = "loop"
        /\ calls[b].i = 2
        /\ Len(calls[b].relevant) = 2
        /\ calls[c].pc = "returned"
        /\ calls[c].result.val # <<>>
        /\ calls[c].context # calls[b].context

\* C10: every template in the table is loaded, at every point during and
\* after discovery, also when loading a later file failed; so no generate
\* call ends with the not-loaded error.
C10_TableLoaded ==
    /\ \A k \in DOMAIN templates :
          /\ objs[templates[k].obj]._template.loaded
          /\ templates[k].obj \in loadCalls
          /\ templates[k].name = objs[templates[k].obj].name
    /\ \A c \in DOMAIN calls :
          ~calls[c].result.ok => calls[c].result.about.cause.err # "NotLoaded"

\* discovery stopped on a file that does not compile, after an insertion
C10_Witness ==
    /\ disc.pc = "failed"
    /\ disc.error.err = "TemplateSyntaxError"
    /\ Len(templates) >= 1
    /\ Len(objs) > Len(templates)

=============================================================================
